---- MODULE Spec2Model ----
(***************************************************************************)
(* Model of app/static/js/main.js: the upload widget that keeps a list of  *)
(* selected PDF files, posts them to /api/generate-testcases and renders   *)
(* the returned results.  Every action below is one event-loop turn of the *)
(* script: a handler body up to its return or its next await.  The markup  *)
(* the script writes into the page (the rows of the file list, the result  *)
(* blocks) is a function of the state below and is not kept as state.      *)
(*                                                                         *)
(* Spec is the widget under every interleaving of user events with up to   *)
(* MaxInFlight pending submissions; the config request of loadConfig stays *)
(* pending in it.  SmallSpec adds the steps of loadConfig and numbers the  *)
(* pending submissions, over fewer user inputs; LiveSpec is SmallSpec with *)
(* the fairness of a network that settles every request and of a timer     *)
(* that fires.                                                             *)
(***************************************************************************)
EXTENDS Integers, Sequences, FiniteSets, Bags, TLC

\* ------------------------------------------------------------------------
\* Bounds of the model
\* ------------------------------------------------------------------------
\* longest candidate array handed to addFiles by one change/drop event
MaxCandidates == 2
\* submissions that may be awaiting the server or the display timer at once
MaxInFlight == 2
\* removeFile is tried with every index in -MaxIndex .. MaxIndex
MaxIndex == 2

\* ------------------------------------------------------------------------
\* Files the user can pick
\* ------------------------------------------------------------------------
\* the size limit of addFiles, in bytes (16 * 1024 * 1024)
SizeLimit == 16777216

PdfMime == "application/pdf"
PdfSuffix == <<".", "p", "d", "f">>

NameA == <<"a", ".", "p", "d", "f">>
NameB == <<"b", ".", "P", "D", "F">>
NameC == <<"c", ".", "t", "x", "t">>
NameD == <<"d", ".", "p", "d", "f">>
NameE == <<"e", ".", "p", "d", "f", "x">>

\* a PDF by type and by name
FileA1 == [name |-> NameA, type |-> PdfMime, size |-> 1500]
\* another file of the same name, a PDF by name only, exactly at the limit
FileA2 == [name |-> NameA, type |-> "", size |-> SizeLimit]
\* a PDF by type only (String.endsWith is case sensitive), empty
FileB == [name |-> NameB, type |-> PdfMime, size |-> 0]
\* not a PDF, and larger than the limit
FileC == [name |-> NameC, type |-> "text/plain", size |-> SizeLimit + 1]
\* a PDF one byte over the limit
FileD == [name |-> NameD, type |-> PdfMime, size |-> SizeLimit + 1]

\* not a PDF although its name contains ".pdf", and small
FileE == [name |-> NameE, type |-> "text/plain", size |-> 12]

Files == {FileA1, FileA2, FileB, FileC, FileD, FileE}

\* the arrays a change or drop event can carry (a drop may carry no file)
CandidateSeqs == UNION {[1..n -> Files] : n \in 0..MaxCandidates}

\* targetCountInput.value; no handler of the script writes it
targetCount == "10"

\* ------------------------------------------------------------------------
\* Responses of POST /api/generate-testcases, as response.json() yields them
\* ------------------------------------------------------------------------
ItemOk == [success |-> TRUE]
ItemErr == [success |-> FALSE]
Responses ==
    { [success |-> TRUE, results |-> <<ItemOk>>],
      [success |-> FALSE, results |-> <<ItemOk, ItemErr>>] }

NoData == [success |-> FALSE, results |-> <<>>]

\* ------------------------------------------------------------------------
\* Responses of GET /api/config, as response.json() yields them
\* ------------------------------------------------------------------------
\* the static text of #modelInfo and #coverageInfo before the config arrives
\* (texts are character sequences; coverage_target is kept as its digits)
DefaultText == <<"-">>
NoConfig == [model |-> <<>>, coverage_target |-> <<>>]
ConfigResponses ==
    { [success |-> TRUE, hasConfig |-> TRUE,
       config |-> [model |-> <<"m">>, coverage_target |-> <<"8", "0">>]],
      [success |-> TRUE, hasConfig |-> FALSE, config |-> NoConfig],
      [success |-> FALSE, hasConfig |-> FALSE, config |-> NoConfig] }

\* the text loadConfig writes into #coverageInfo
percentText(target) == target \o <<"%">>

\* ------------------------------------------------------------------------
\* State
\* ------------------------------------------------------------------------
VARIABLES
    selectedFiles,        \* the array selectedFiles
    generateBtnDisabled,  \* generateBtn.disabled
    progressDisplay,      \* progressSection.style.display
    resultsDisplay,       \* resultsSection.style.display
    progressWidth,        \* progressFill.style.width, in percent
    requests,             \* the bag of suspended generateTestCases calls
                          \* and pending display timers
    configPc,             \* where the loadConfig call of startup stands
    modelInfo,            \* textContent of #modelInfo
    coverageInfo,         \* textContent of #coverageInfo
    alertMsg,             \* the alert raised by the latest handler, if any
    lastOp                \* the latest handler run and its argument

configVars == <<configPc, modelInfo, coverageInfo>>

vars == <<selectedFiles, generateBtnDisabled, progressDisplay, resultsDisplay,
          progressWidth, requests, configPc, modelInfo, coverageInfo, alertMsg,
          lastOp>>

NoAlert == [kind |-> "none", text |-> <<>>]
WrongTypeAlert == [kind |-> "wrongType", text |-> <<>>]
OversizeAlert(name) == [kind |-> "oversize", text |-> name]
ErrorAlert(message) == [kind |-> "error", text |-> message]

\* the suspended calls and pending timers
InFlight == BagToSet(requests)

\* ------------------------------------------------------------------------
\* Pure helpers of the script
\* ------------------------------------------------------------------------
\* String.prototype.endsWith
endsWith(s, suffix) ==
    /\ Len(s) >= Len(suffix)
    /\ SubSeq(s, Len(s) - Len(suffix) + 1, Len(s)) = suffix

\* variants of isPdf: a filter that keeps every file, and one that asks for
\* the type and the suffix together
isPdfAny(file) == TRUE
isPdfBoth(file) == file.type = PdfMime /\ endsWith(file.name, PdfSuffix)

\* the predicate of the first filter of addFiles
isPdf(file) == file.type = PdfMime \/ endsWith(file.name, PdfSuffix)

\* variant of isOversized: the limit taken as 17 MiB
isOversizedLoose(file) == file.size > 17 * 1024 * 1024

\* variant of isOversized: a file of exactly the limit counts as too large
isOversizedInclusive(file) == file.size >= 16 * 1024 * 1024

\* the predicate of the second filter of addFiles
isOversized(file) == file.size > 16 * 1024 * 1024

\* Array.prototype.filter is SelectSeq
pdfFilesOf(files) == SelectSeq(files, isPdf)
oversizedFilesOf(pdfFiles) == SelectSeq(pdfFiles, isOversized)

\* variant of findByName: entries compared as whole files
findByIdentity(list, file) == \E i \in 1..Len(list) : list[i] = file

\* selectedFiles.find(f => f.name === file.name) finds an entry
findByName(list, file) == \E i \in 1..Len(list) : list[i].name = file.name

\* variant of pushNew: every file is pushed
pushAlways(list, pdfFiles) == list \o pdfFiles

\* the forEach of addFiles: push every file whose name is not yet in the list
RECURSIVE pushNew(_, _)
pushNew(list, pdfFiles) ==
    IF pdfFiles = <<>> THEN list
    ELSE pushNew(IF findByName(list, Head(pdfFiles)) THEN list
                 ELSE Append(list, Head(pdfFiles)),
                 Tail(pdfFiles))

\* variant of spliceOne: the last entry is taken whatever the index (pop)
spliceLast(list, index) == SubSeq(list, 1, Len(list) - 1)

\* Array.prototype.splice(index, 1), the array it leaves
spliceOne(list, index) ==
    LET len == Len(list)
        start == IF index < 0
                 THEN (IF len + index > 0 THEN len + index ELSE 0)
                 ELSE (IF index < len THEN index ELSE len)
        count == IF len - start < 1 THEN len - start ELSE 1
    IN  SubSeq(list, 1, start) \o SubSeq(list, start + count + 1, len)

\* the value updateGenerateButton gives generateBtn.disabled
updateGenerateButton(list) == Len(list) = 0

\* variant of formDataOf: the target_count field is left out
formDataOfFilesOnly(list, count) == [i \in 1..Len(list) |-> <<"files", list[i]>>]

\* the FormData generateTestCases builds, as its entries in append order
formDataOf(list, count) ==
    [i \in 1..Len(list) |-> <<"files", list[i]>>] \o << <<"target_count", count>> >>

\* variants of listAfterDisplay: the list is never cleared, always cleared
listAfterDisplayKept(data, list) == list
listAfterDisplayCleared(data, list) == <<>>

\* the list displayResults leaves
listAfterDisplay(data, list) == IF data.success THEN <<>> ELSE list

\* ------------------------------------------------------------------------
\* Initial state: the script has run, no event was handled yet
\* ------------------------------------------------------------------------
Init ==
    /\ selectedFiles = <<>>
    /\ generateBtnDisabled = TRUE
    /\ progressDisplay = "none"
    /\ resultsDisplay = "none"
    /\ progressWidth = 0
    /\ requests = EmptyBag
    /\ configPc = "fetch"
    /\ modelInfo = DefaultText
    /\ coverageInfo = DefaultText
    /\ alertMsg = NoAlert
    /\ lastOp = [op |-> "init", arg |-> <<>>]

\* ------------------------------------------------------------------------
\* Selection handlers
\* ------------------------------------------------------------------------
\* handleFileSelect / handleDrop -> addFiles(files)
addFiles(files) ==
    LET pdfFiles == pdfFilesOf(files)
        oversizedFiles == oversizedFilesOf(pdfFiles)
    IN  /\ lastOp' = [op |-> "addFiles", arg |-> files]
        /\ UNCHANGED <<progressDisplay, resultsDisplay, progressWidth, requests>>
        /\ UNCHANGED configVars
        /\ IF Len(pdfFiles) = 0
           THEN /\ alertMsg' = WrongTypeAlert
                /\ UNCHANGED <<selectedFiles, generateBtnDisabled>>
           ELSE IF Len(oversizedFiles) > 0
           THEN /\ alertMsg' = OversizeAlert(oversizedFiles[1].name)
                /\ UNCHANGED <<selectedFiles, generateBtnDisabled>>
           ELSE /\ alertMsg' = NoAlert
                /\ selectedFiles' = pushNew(selectedFiles, pdfFiles)
                /\ generateBtnDisabled' = updateGenerateButton(selectedFiles')

\* window.removeFile(index)
removeFile(index) ==
    /\ lastOp' = [op |-> "removeFile", arg |-> index]
    /\ alertMsg' = NoAlert
    /\ selectedFiles' = spliceOne(selectedFiles, index)
    /\ generateBtnDisabled' = updateGenerateButton(selectedFiles')
    /\ UNCHANGED <<progressDisplay, resultsDisplay, progressWidth, requests>>
    /\ UNCHANGED configVars

\* ------------------------------------------------------------------------
\* Generation
\* ------------------------------------------------------------------------
\* variant of entryGuard: no early return
entryGuardOff(list) == FALSE

\* the early return of generateTestCases
entryGuard(list) == Len(list) = 0

\* click on generateBtn -> generateTestCases(), up to the await of fetch.
\* A disabled button dispatches no click event.  call names the activation
\* of the async function; lastOp keeps the percentages the turn passed to
\* updateProgress, in order.
generateTestCasesCall(call) ==
    /\ ~generateBtnDisabled
    /\ alertMsg' = NoAlert
    /\ UNCHANGED selectedFiles
    /\ UNCHANGED configVars
    /\ IF entryGuard(selectedFiles)
       THEN /\ lastOp' = [op |-> "generateTestCases", arg |-> <<>>]
            /\ UNCHANGED <<generateBtnDisabled, progressDisplay, resultsDisplay,
                           progressWidth, requests>>
       ELSE /\ BagCardinality(requests) < MaxInFlight
            /\ requests' = requests (+) SetToBag({
                    [pc |-> "fetch",
                     call |-> call,
                     formData |-> formDataOf(selectedFiles, targetCount),
                     data |-> NoData]})
            /\ lastOp' = [op |-> "generateTestCases", arg |-> <<0, 20>>]
            /\ resultsDisplay' = "none"
            /\ progressDisplay' = "block"
            /\ generateBtnDisabled' = TRUE
            /\ progressWidth' = 20

\* in Spec the activations are not told apart
generateTestCases == generateTestCasesCall(0)

\* in SmallSpec a new activation takes the least number no pending one has
generateTestCasesNumbered ==
    \E call \in 1..MaxInFlight :
        /\ \A req \in InFlight : req.call # call
        /\ \A other \in 1..(call - 1) : \E req \in InFlight : req.call = other
        /\ generateTestCasesCall(call)

\* request req leaves its current suspension point for the next one
resume(req, next) == (requests (-) SetToBag({req})) (+) SetToBag({next})

\* the fetch promise of request req fulfils: progress 40, await response.json()
fetchFulfilled(req) ==
    /\ req.pc = "fetch"
    /\ requests' = resume(req, [req EXCEPT !.pc = "json"])
    /\ progressWidth' = 40
    /\ lastOp' = [op |-> "fetchFulfilled", arg |-> <<40>>]
    /\ alertMsg' = NoAlert
    /\ UNCHANGED <<selectedFiles, generateBtnDisabled, progressDisplay,
                   resultsDisplay>>
    /\ UNCHANGED configVars

\* response.json() of request req fulfils with data: progress 100, setTimeout
jsonFulfilled(req, data) ==
    /\ req.pc = "json"
    /\ requests' = resume(req, [req EXCEPT !.pc = "timer", !.data = data])
    /\ progressWidth' = 100
    /\ lastOp' = [op |-> "jsonFulfilled", arg |-> <<100>>]
    /\ alertMsg' = NoAlert
    /\ UNCHANGED <<selectedFiles, generateBtnDisabled, progressDisplay,
                   resultsDisplay>>
    /\ UNCHANGED configVars

\* variant of catchError: the selection is dropped with the request
catchErrorClearing(req, message) ==
    /\ requests' = requests (-) SetToBag({req})
    /\ progressDisplay' = "none"
    /\ alertMsg' = ErrorAlert(message)
    /\ generateBtnDisabled' = FALSE
    /\ selectedFiles' = <<>>
    /\ lastOp' = [op |-> "catchError", arg |-> req.pc]
    /\ UNCHANGED <<resultsDisplay, progressWidth>>
    /\ UNCHANGED configVars

\* the catch block of generateTestCases, for request req
catchError(req, message) ==
    /\ requests' = requests (-) SetToBag({req})
    /\ progressDisplay' = "none"
    /\ alertMsg' = ErrorAlert(message)
    /\ generateBtnDisabled' = FALSE
    /\ lastOp' = [op |-> "catchError", arg |-> req.pc]
    /\ UNCHANGED <<selectedFiles, resultsDisplay, progressWidth>>
    /\ UNCHANGED configVars

\* the fetch promise of request req rejects
fetchRejected(req) ==
    /\ req.pc = "fetch"
    /\ catchError(req, "Failed to fetch")

\* response.json() of request req rejects: the body is not JSON
jsonRejected(req) ==
    /\ req.pc = "json"
    /\ catchError(req, "Unexpected token")

\* variants of displayResults: the timer is armed again (setInterval), and
\* the progress panel is left visible
displayResultsRearmed(req) ==
    LET data == req.data
    IN  /\ req.pc = "timer"
        /\ requests' = requests
        /\ progressDisplay' = "none"
        /\ resultsDisplay' = "block"
        /\ selectedFiles' = listAfterDisplay(data, selectedFiles)
        /\ generateBtnDisabled' =
               IF data.success THEN updateGenerateButton(selectedFiles') ELSE FALSE
        /\ lastOp' = [op |-> "displayResults", arg |-> data]
        /\ alertMsg' = NoAlert
        /\ UNCHANGED progressWidth
        /\ UNCHANGED configVars

displayResultsKeepsProgress(req) ==
    LET data == req.data
    IN  /\ req.pc = "timer"
        /\ requests' = requests (-) SetToBag({req})
        /\ resultsDisplay' = "block"
        /\ selectedFiles' = listAfterDisplay(data, selectedFiles)
        /\ generateBtnDisabled' =
               IF data.success THEN updateGenerateButton(selectedFiles') ELSE FALSE
        /\ lastOp' = [op |-> "displayResults", arg |-> data]
        /\ alertMsg' = NoAlert
        /\ UNCHANGED <<progressDisplay, progressWidth>>
        /\ UNCHANGED configVars

\* the 500 ms timer of request req fires: displayResults(data)
displayResults(req) ==
    LET data == req.data
    IN  /\ req.pc = "timer"
        /\ requests' = requests (-) SetToBag({req})
        /\ progressDisplay' = "none"
        /\ resultsDisplay' = "block"
        /\ selectedFiles' = listAfterDisplay(data, selectedFiles)
        /\ generateBtnDisabled' =
               IF data.success THEN updateGenerateButton(selectedFiles') ELSE FALSE
        /\ lastOp' = [op |-> "displayResults", arg |-> data]
        /\ alertMsg' = NoAlert
        /\ UNCHANGED progressWidth
        /\ UNCHANGED configVars

\* ------------------------------------------------------------------------
\* Config loader: loadConfig() is called once, by the DOMContentLoaded
\* handler, and is suspended at its fetch when the first event is handled
\* ------------------------------------------------------------------------
pageVars == <<selectedFiles, generateBtnDisabled, progressDisplay,
              resultsDisplay, progressWidth, requests>>

\* the fetch of /api/config fulfils: await response.json()
configFetchFulfilled ==
    /\ configPc = "fetch"
    /\ configPc' = "json"
    /\ lastOp' = [op |-> "configFetchFulfilled", arg |-> <<>>]
    /\ alertMsg' = NoAlert
    /\ UNCHANGED <<modelInfo, coverageInfo>>
    /\ UNCHANGED pageVars

\* variant of configCatch: the failure is written into the display fields
configCatchShown(from) ==
    /\ configPc' = "done"
    /\ lastOp' = [op |-> "configCatch", arg |-> from]
    /\ alertMsg' = NoAlert
    /\ modelInfo' = <<"e", "r", "r">>
    /\ coverageInfo' = <<"e", "r", "r">>
    /\ UNCHANGED pageVars

\* the catch block of loadConfig: console.error only
configCatch(from) ==
    /\ configPc' = "done"
    /\ lastOp' = [op |-> "configCatch", arg |-> from]
    /\ alertMsg' = NoAlert
    /\ UNCHANGED <<modelInfo, coverageInfo>>
    /\ UNCHANGED pageVars

\* the fetch of /api/config rejects
configFetchRejected ==
    /\ configPc = "fetch"
    /\ configCatch("fetch")

\* response.json() of the config response rejects
configJsonRejected ==
    /\ configPc = "json"
    /\ configCatch("json")

\* response.json() of the config response fulfils with data.  Reading
\* data.config.model of a body without config throws before the first write.
configJsonFulfilled(data) ==
    /\ configPc = "json"
    /\ IF data.success /\ ~data.hasConfig
       THEN configCatch("config")
       ELSE /\ configPc' = "done"
            /\ lastOp' = [op |-> "configJsonFulfilled", arg |-> data]
            /\ alertMsg' = NoAlert
            /\ modelInfo' = IF data.success THEN data.config.model ELSE modelInfo
            /\ coverageInfo' = IF data.success
                               THEN percentText(data.config.coverage_target)
                               ELSE coverageInfo
            /\ UNCHANGED pageVars

\* ------------------------------------------------------------------------
\* Specification
\* ------------------------------------------------------------------------
Next ==
    \/ \E files \in CandidateSeqs : addFiles(files)
    \/ \E index \in (-MaxIndex)..MaxIndex : removeFile(index)
    \/ generateTestCases
    \/ \E req \in InFlight : fetchFulfilled(req)
    \/ \E req \in InFlight : fetchRejected(req)
    \/ \E req \in InFlight, data \in Responses : jsonFulfilled(req, data)
    \/ \E req \in InFlight : jsonRejected(req)
    \/ \E req \in InFlight : displayResults(req)

Spec == Init /\ [][Next]_vars

\* ------------------------------------------------------------------------
\* SmallSpec: the same handlers with the config loader and numbered
\* activations, over one-file selections and the removal of the first entry
\* ------------------------------------------------------------------------
SmallFiles == {FileA1, FileB, FileE}
SmallCandidateSeqs == {<<f>> : f \in SmallFiles}

\* a step of the pending submission req
settle(req) ==
    \/ fetchFulfilled(req)
    \/ fetchRejected(req)
    \/ \E data \in Responses : jsonFulfilled(req, data)
    \/ jsonRejected(req)
    \/ displayResults(req)

\* a step of the activation numbered call
settleCall(call) == \E req \in InFlight : req.call = call /\ settle(req)

SmallNext ==
    \/ \E files \in SmallCandidateSeqs : addFiles(files)
    \/ removeFile(0)
    \/ generateTestCasesNumbered
    \/ \E call \in 1..MaxInFlight : settleCall(call)
    \/ configFetchFulfilled
    \/ configFetchRejected
    \/ \E data \in ConfigResponses : configJsonFulfilled(data)
    \/ configJsonRejected

SmallSpec == Init /\ [][SmallNext]_vars

\* the network settles every pending request and the timer fires
LiveSpec ==
    /\ SmallSpec
    /\ \A call \in 1..MaxInFlight : WF_vars(settleCall(call))

\* ------------------------------------------------------------------------
\* Vocabulary of the properties, written without the helpers above
\* ------------------------------------------------------------------------
Limit == 16 * 1024 * 1024

\* the file is a PDF by MIME type or by the last four characters of its name
LooksPdf(f) ==
    \/ f.type = "application/pdf"
    \/ /\ Len(f.name) >= 4
       /\ f.name[Len(f.name) - 3] = "."
       /\ f.name[Len(f.name) - 2] = "p"
       /\ f.name[Len(f.name) - 1] = "d"
       /\ f.name[Len(f.name)] = "f"

Entries(list) == {list[i] : i \in 1..Len(list)}
NamesOf(list) == {list[i].name : i \in 1..Len(list)}

\* the files carried by a request body
FilesOfForm(form) == {form[i][2] : i \in {k \in 1..Len(form) : form[k][1] = "files"}}

\* the rest of the page: everything but the list, the button and the history
PageUnchanged ==
    UNCHANGED <<progressDisplay, resultsDisplay, progressWidth, requests>>

\* the candidate is a PDF larger than the limit
BigPdf(f) == LooksPdf(f) /\ f.size > Limit

\* ------------------------------------------------------------------------
\* C1: while a submission is pending (request not answered, or display timer
\* not yet fired) the submit control is disabled, and at most one submission
\* is pending.
\* ------------------------------------------------------------------------
C1_OneRequestInFlight ==
    /\ BagCardinality(requests) <= 1
    /\ (requests # EmptyBag => generateBtnDisabled)

\* ------------------------------------------------------------------------
\* C2: no two entries of the Selection List have the same name.
\* ------------------------------------------------------------------------
C2_UniqueNames ==
    \A i, j \in 1..Len(selectedFiles) :
        i # j => selectedFiles[i].name # selectedFiles[j].name

\* two candidates of one name were added while a request was pending
C2_Witness ==
    /\ lastOp.op = "addFiles"
    /\ lastOp.arg = <<FileA2, FileA1>>
    /\ selectedFiles = <<FileB, FileA2>>
    /\ requests # EmptyBag

\* ------------------------------------------------------------------------
\* C3: the failure path hides the progress panel, raises one error alert,
\* enables the submit control, leaves the Selection List as it was and
\* schedules no display step: the failed request is gone and nothing else
\* about the pending requests changes.
\* ------------------------------------------------------------------------
C3_FailurePath ==
    [][lastOp'.op = "catchError" =>
          /\ progressDisplay' = "none"
          /\ alertMsg'.kind = "error"
          /\ generateBtnDisabled' = FALSE
          /\ selectedFiles' = selectedFiles
          /\ \E req \in BagToSet(requests) :
                /\ req.pc \in {"fetch", "json"}
                /\ requests' (+) SetToBag({req}) = requests]_vars

C3_Witness ==
    /\ lastOp.op = "catchError"
    /\ alertMsg.kind = "error"
    /\ selectedFiles # <<>>
    /\ ~generateBtnDisabled
    /\ progressDisplay = "none"

\* ------------------------------------------------------------------------
\* C4: right after results are displayed for a response with success = true
\* the Selection List is empty, the submit control is disabled, the progress
\* panel is hidden and the results panel is shown.
\* ------------------------------------------------------------------------
C4_SuccessClears ==
    (lastOp.op = "displayResults" /\ lastOp.arg.success) =>
        /\ selectedFiles = <<>>
        /\ generateBtnDisabled
        /\ progressDisplay = "none"
        /\ resultsDisplay = "block"

\* a success response was displayed while another request was pending
C4_Witness ==
    /\ lastOp.op = "displayResults"
    /\ lastOp.arg.success
    /\ requests # EmptyBag

\* ------------------------------------------------------------------------
\* C5, as claimed: if any candidate of an addFiles call exceeds 16 MiB the
\* call is aborted with an alert naming an oversized candidate and the
\* list and the submit control are unchanged.
\* ------------------------------------------------------------------------
C5_AnyOversizedAborts ==
    [][(/\ lastOp'.op = "addFiles"
        /\ \E i \in 1..Len(lastOp'.arg) : lastOp'.arg[i].size > Limit)
       => /\ selectedFiles' = selectedFiles
          /\ generateBtnDisabled' = generateBtnDisabled
          /\ alertMsg'.kind = "oversize"
          /\ \E i \in 1..Len(lastOp'.arg) :
                /\ lastOp'.arg[i].size > Limit
                /\ alertMsg'.text = lastOp'.arg[i].name]_vars

\* C5, amended: if any PDF candidate of an addFiles call exceeds 16 MiB the
\* call is aborted with an alert naming the first oversized PDF candidate,
\* and the list, the submit control and the rest of the page are unchanged.
C5_OversizedPdfAborts ==
    [][(/\ lastOp'.op = "addFiles"
        /\ \E i \in 1..Len(lastOp'.arg) : BigPdf(lastOp'.arg[i]))
       => /\ selectedFiles' = selectedFiles
          /\ generateBtnDisabled' = generateBtnDisabled
          /\ PageUnchanged
          /\ alertMsg'.kind = "oversize"
          /\ \E i \in 1..Len(lastOp'.arg) :
                /\ BigPdf(lastOp'.arg[i])
                /\ \A j \in 1..(i - 1) : ~BigPdf(lastOp'.arg[j])
                /\ alertMsg'.text = lastOp'.arg[i].name]_vars

\* a call with a valid new candidate and an oversized PDF was aborted
C5_Witness ==
    /\ lastOp.op = "addFiles"
    /\ lastOp.arg = <<FileA1, FileD>>
    /\ alertMsg = OversizeAlert(NameD)
    /\ selectedFiles = <<FileB>>
    /\ ~generateBtnDisabled

\* ------------------------------------------------------------------------
\* C6: every entry of the Selection List and every file of a request body is
\* a PDF by type or by name and is at most 16 MiB large.
\* ------------------------------------------------------------------------
C6_OnlyValidFiles ==
    /\ \A f \in Entries(selectedFiles) : LooksPdf(f) /\ f.size <= Limit
    /\ \A req \in BagToSet(requests) :
          \A f \in FilesOfForm(req.formData) : LooksPdf(f) /\ f.size <= Limit

\* a file of exactly the limit is listed, a PDF by type only is in a request
C6_Witness ==
    /\ FileA2 \in Entries(selectedFiles)
    /\ \E req \in BagToSet(requests) : FileB \in FilesOfForm(req.formData)

\* ------------------------------------------------------------------------
\* C7: removeFile with an index that is no position 0 .. length-1 of the
\* list leaves the list unchanged.
\* ------------------------------------------------------------------------
C7_OutOfRangeIsNoOp ==
    [][(/\ lastOp'.op = "removeFile"
        /\ lastOp'.arg \notin 0..(Len(selectedFiles) - 1))
       => selectedFiles' = selectedFiles]_vars

\* ------------------------------------------------------------------------
\* C8: displaying the results of a response with success = false leaves the
\* Selection List as it was, whatever the flags of the result items.
\* ------------------------------------------------------------------------
C8_FailureKeepsSelection ==
    [][(lastOp'.op = "displayResults" /\ ~lastOp'.arg.success)
       => selectedFiles' = selectedFiles]_vars

C8_Witness ==
    /\ lastOp.op = "displayResults"
    /\ ~lastOp.arg.success
    /\ \E i \in 1..Len(lastOp.arg.results) : lastOp.arg.results[i].success
    /\ resultsDisplay = "block"
    /\ selectedFiles # <<>>

\* ------------------------------------------------------------------------
\* C9: a press of submit while the Selection List is empty issues no request
\* and changes neither the panels, the progress value, the submit control
\* nor the list.
\* ------------------------------------------------------------------------
C9_EmptySubmitIsNoOp ==
    [][(lastOp'.op = "generateTestCases" /\ selectedFiles = <<>>)
       => UNCHANGED <<requests, progressDisplay, resultsDisplay, progressWidth,
                      generateBtnDisabled, selectedFiles>>]_vars

C9_Witness ==
    /\ lastOp.op = "generateTestCases"
    /\ selectedFiles = <<>>
    /\ ~generateBtnDisabled
    /\ requests = EmptyBag

\* ------------------------------------------------------------------------
\* C10: addFiles raises the wrong-type alert exactly when no candidate is a
\* PDF, and then changes nothing; no candidate that is not a PDF ever enters
\* the list; a call that mixes non-PDF candidates with PDF candidates within
\* the size limit raises no alert and leaves every PDF candidate's name in
\* the list.
\* ------------------------------------------------------------------------
C10_WrongTypeWarning ==
    [][lastOp'.op = "addFiles" =>
          LET files == lastOp'.arg
              noPdf == \A i \in 1..Len(files) : ~LooksPdf(files[i])
              mixed == /\ \E i \in 1..Len(files) : ~LooksPdf(files[i])
                       /\ \E i \in 1..Len(files) : LooksPdf(files[i])
                       /\ \A i \in 1..Len(files) : ~BigPdf(files[i])
          IN  /\ (alertMsg'.kind = "wrongType") <=> noPdf
              /\ noPdf => /\ selectedFiles' = selectedFiles
                          /\ generateBtnDisabled' = generateBtnDisabled
                          /\ PageUnchanged
              /\ \A f \in Entries(selectedFiles') :
                    f \in Entries(selectedFiles)
                    \/ (LooksPdf(f) /\ f \in Entries(files))
              /\ mixed => /\ alertMsg' = NoAlert
                          /\ \A i \in 1..Len(files) :
                                LooksPdf(files[i]) =>
                                    files[i].name \in NamesOf(selectedFiles')]_vars

\* a call mixing a non-PDF with a new PDF added the PDF without an alert
C10_Witness ==
    /\ lastOp.op = "addFiles"
    /\ lastOp.arg = <<FileC, FileB>>
    /\ alertMsg = NoAlert
    /\ selectedFiles = <<FileA1, FileB>>

\* ------------------------------------------------------------------------
\* Vocabulary of the properties about submissions
\* ------------------------------------------------------------------------
\* the activation numbered call is pending: its request is not answered or
\* its display timer has not fired
Pending(call) == \E req \in InFlight : req.call = call

\* the request the step takes out of the pending ones, if it takes one
Leaving(req) == req \in BagToSet(requests) /\ requests' (+) SetToBag({req}) = requests

\* the step takes request req from one position to the next, body kept
Advancing(req, from, to) ==
    /\ req \in BagToSet(requests)
    /\ req.pc = from
    /\ \E nxt \in BagToSet(requests') :
          /\ nxt.pc = to
          /\ nxt.call = req.call
          /\ nxt.formData = req.formData
          /\ requests (-) SetToBag({req}) = requests' (-) SetToBag({nxt})

\* ------------------------------------------------------------------------
\* C11: a submission that passed the entry guard sets the progress to 0 and
\* then to 20 in the turn that issues the request, to 40 when the fetch
\* await resumes, to 100 when the body is parsed, and is displayed only from
\* its timer; while a submission is pending the progress value never
\* decreases.
\* ------------------------------------------------------------------------
C11_ProgressOrder ==
    [][/\ (lastOp'.op = "generateTestCases" /\ selectedFiles # <<>>) =>
             /\ lastOp'.arg = <<0, 20>>
             /\ progressWidth' = 20
             /\ \E req \in BagToSet(requests') :
                   req.pc = "fetch" /\ requests (+) SetToBag({req}) = requests'
       /\ lastOp'.op = "fetchFulfilled" =>
             /\ progressWidth' = 40
             /\ \E req \in BagToSet(requests) : Advancing(req, "fetch", "json")
       /\ lastOp'.op = "jsonFulfilled" =>
             /\ progressWidth' = 100
             /\ \E req \in BagToSet(requests) : Advancing(req, "json", "timer")
       /\ lastOp'.op = "displayResults" =>
             \E req \in BagToSet(requests) : Leaving(req) /\ req.pc = "timer"
       /\ (requests # EmptyBag /\ requests' # EmptyBag) =>
             progressWidth' >= progressWidth]_vars

\* ------------------------------------------------------------------------
\* C12: addFiles is idempotent on the Selection List: a second call with the
\* candidates of the call before it leaves the list as it is; every call
\* keeps the existing entries in place and adds no entry whose name the list
\* already had.
\* ------------------------------------------------------------------------
C12_AddFilesIdempotent ==
    [][lastOp'.op = "addFiles" =>
          /\ (lastOp.op = "addFiles" /\ lastOp.arg = lastOp'.arg) =>
                selectedFiles' = selectedFiles
          /\ Len(selectedFiles') >= Len(selectedFiles)
          /\ SubSeq(selectedFiles', 1, Len(selectedFiles)) = selectedFiles
          /\ \A k \in (Len(selectedFiles) + 1)..Len(selectedFiles') :
                selectedFiles'[k].name \notin NamesOf(selectedFiles)]_vars

\* a call whose two names were both listed left the list and its entries
C12_Witness ==
    /\ lastOp.op = "addFiles"
    /\ lastOp.arg = <<FileA2, FileB>>
    /\ alertMsg = NoAlert
    /\ selectedFiles = <<FileA1, FileB>>

\* ------------------------------------------------------------------------
\* C13: a PDF candidate of exactly 16 * 1024 * 1024 bytes whose name is new
\* is appended (when no PDF candidate of the call is larger), and a call
\* with a PDF candidate of 16 * 1024 * 1024 + 1 bytes is rejected.
\* ------------------------------------------------------------------------
C13_LimitInclusive ==
    [][lastOp'.op = "addFiles" =>
          LET files == lastOp'.arg
          IN  /\ (\E i \in 1..Len(files) :
                     LooksPdf(files[i]) /\ files[i].size = Limit + 1)
                 => /\ selectedFiles' = selectedFiles
                    /\ alertMsg'.kind = "oversize"
              /\ \A i \in 1..Len(files) :
                    (/\ LooksPdf(files[i])
                     /\ files[i].size = Limit
                     /\ files[i].name \notin NamesOf(selectedFiles)
                     /\ \A j \in 1..Len(files) : ~BigPdf(files[j])
                     /\ \A j \in 1..(i - 1) :
                           LooksPdf(files[j]) => files[j].name # files[i].name)
                    => /\ alertMsg' = NoAlert
                       /\ \E k \in (Len(selectedFiles) + 1)..Len(selectedFiles') :
                             selectedFiles'[k] = files[i]]_vars

\* the file of exactly the limit was appended to a list
C13_Witness ==
    /\ lastOp.op = "addFiles"
    /\ lastOp.arg = <<FileA2>>
    /\ FileA2.size = 16 * 1024 * 1024
    /\ selectedFiles = <<FileB, FileA2>>

\* ------------------------------------------------------------------------
\* C14: with a network that settles every request and a timer that fires,
\* every submission that passed the entry guard ends; it ends by exactly
\* one step, the failure path (from the fetch or the json() await) or the
\* delayed display (from the timer), and that step hides the progress panel
\* and enables the submit control, which only the display of a success
\* response disables again with the list it cleared.
\* ------------------------------------------------------------------------
C14_SubmissionEnds ==
    /\ \A call \in 1..MaxInFlight : Pending(call) ~> ~Pending(call)
    /\ [][/\ BagCardinality(requests') >= BagCardinality(requests) - 1
          /\ (lastOp'.op \in {"catchError", "displayResults"})
                <=> (BagCardinality(requests') < BagCardinality(requests))
          /\ lastOp'.op = "catchError" =>
                /\ \E req \in BagToSet(requests) :
                      Leaving(req) /\ req.pc \in {"fetch", "json"}
                /\ progressDisplay' = "none"
                /\ ~generateBtnDisabled'
          /\ lastOp'.op = "displayResults" =>
                /\ \E req \in BagToSet(requests) :
                      Leaving(req) /\ req.pc = "timer"
                /\ progressDisplay' = "none"
                /\ generateBtnDisabled' =>
                      (lastOp'.arg.success /\ selectedFiles' = <<>>)]_vars

\* a submission ended by its display while another one was still pending
C14_Witness ==
    /\ lastOp.op = "displayResults"
    /\ ~Pending(1)
    /\ Pending(2)
    /\ progressDisplay = "none"

\* ------------------------------------------------------------------------
\* C15: every file the clearing after a success response removes from the
\* Selection List was in the request body of the submission displayed.
\* ------------------------------------------------------------------------
C15_ClearedWereSubmitted ==
    [][(lastOp'.op = "displayResults" /\ lastOp'.arg.success) =>
          \E req \in BagToSet(requests) :
              /\ Leaving(req)
              /\ (Entries(selectedFiles) \ Entries(selectedFiles'))
                     \subseteq FilesOfForm(req.formData)]_vars

\* ------------------------------------------------------------------------
\* C16: when no submission is pending and some handler has run, the submit
\* control is enabled if and only if the Selection List is not empty.
\* ------------------------------------------------------------------------
C16_EnabledIffNonEmpty ==
    (requests = EmptyBag /\ lastOp.op # "init") =>
        (~generateBtnDisabled <=> selectedFiles # <<>>)

\* ------------------------------------------------------------------------
\* C17: the request body built by a submission is the entries of the
\* Selection List at the press, each once and in list order, followed by
\* one target_count field; no two files of a body share a name; no later
\* step changes the body of a pending request.
\* ------------------------------------------------------------------------
BodiesOf(bag) == {<<req.call, req.formData>> : req \in BagToSet(bag)}

C17_RequestBody ==
    /\ [](\A req \in InFlight :
             LET form == req.formData
                 n == Len(form)
             IN  /\ n >= 2
                 /\ form[n] = <<"target_count", "10">>
                 /\ \A i \in 1..(n - 1) : form[i][1] = "files"
                 /\ \A i, j \in 1..(n - 1) :
                       i # j => form[i][2].name # form[j][2].name)
    /\ [][/\ (lastOp'.op = "generateTestCases" /\ selectedFiles # <<>>) =>
                \E req \in BagToSet(requests') :
                    /\ requests (+) SetToBag({req}) = requests'
                    /\ Len(req.formData) = Len(selectedFiles) + 1
                    /\ \A i \in 1..Len(selectedFiles) :
                          req.formData[i] = <<"files", selectedFiles[i]>>
          /\ lastOp'.op \in {"addFiles", "removeFile"} => requests' = requests
          /\ lastOp'.op # "generateTestCases" =>
                BodiesOf(requests') \subseteq BodiesOf(requests)]_vars

\* a body of two files is pending after the list it came from was emptied
C17_Witness ==
    /\ lastOp.op = "removeFile"
    /\ selectedFiles = <<>>
    /\ \E req \in InFlight :
          req.formData = << <<"files", FileB>>, <<"files", FileA2>>,
                            <<"target_count", "10">> >>

\* ------------------------------------------------------------------------
\* C18: addFiles keeps the existing entries in place and appends the
\* accepted candidates (the PDF candidates of a call that is not aborted
\* whose name is neither listed nor carried by an earlier PDF candidate) in
\* candidate order; removeFile with a position 0 .. length-1 removes the
\* entry at that position and keeps the others in order.
\* ------------------------------------------------------------------------
Accepted(files, list) ==
    IF \E i \in 1..Len(files) : BigPdf(files[i])
    THEN {}
    ELSE {i \in 1..Len(files) :
             /\ LooksPdf(files[i])
             /\ files[i].name \notin NamesOf(list)
             /\ \A j \in 1..(i - 1) :
                   LooksPdf(files[j]) => files[j].name # files[i].name}

C19_OnePanel == ~(progressDisplay = "block" /\ resultsDisplay = "block")

\* results were displayed while another submission was pending
C19_Witness ==
    /\ lastOp.op = "displayResults"
    /\ resultsDisplay = "block"
    /\ progressDisplay = "none"
    /\ requests # EmptyBag

\* ------------------------------------------------------------------------
\* C20: the config load is best effort and blocks nothing: the two display
\* fields keep their default text unless a success response with a config
\* was parsed; no step of loadConfig raises an alert or changes the list,
\* the submit control, the panels, the progress or the pending submissions;
\* a failed fetch, a body that is no JSON and a success = false response
\* leave the fields as they are; whatever the config request is doing,
\* addFiles and removeFile can run, an enabled submit control can be pressed
\* and every pending submission can take its next step.
\* ------------------------------------------------------------------------
C20_ConfigBestEffort ==
    /\ [](\/ modelInfo = <<"-">> /\ coverageInfo = <<"-">>
          \/ /\ configPc = "done"
             /\ modelInfo = <<"m">>
             /\ coverageInfo = <<"8", "0", "%">>)
    /\ [](/\ ENABLED addFiles(<<FileA1>>)
          /\ ENABLED removeFile(0)
          /\ (~generateBtnDisabled /\ BagCardinality(requests) < MaxInFlight)
                => ENABLED generateTestCasesNumbered
          /\ \A req \in InFlight : ENABLED settle(req))
    /\ [][/\ lastOp'.op \in {"configFetchFulfilled", "configCatch",
                             "configJsonFulfilled"} =>
                /\ alertMsg' = NoAlert
                /\ UNCHANGED <<selectedFiles, generateBtnDisabled,
                               progressDisplay, resultsDisplay, progressWidth,
                               requests>>
          /\ (\/ lastOp'.op \in {"configFetchFulfilled", "configCatch"}
              \/ lastOp'.op = "configJsonFulfilled" /\ ~lastOp'.arg.success) =>
                UNCHANGED <<modelInfo, coverageInfo>>
          /\ lastOp'.op \in {"addFiles", "removeFile", "generateTestCases",
                             "fetchFulfilled", "jsonFulfilled", "catchError",
                             "displayResults"} =>
                UNCHANGED <<configPc, modelInfo, coverageInfo>>]_vars

\* the config request failed while a submission was pending, fields default
C20_Witness ==
    /\ lastOp.op = "configCatch"
    /\ configPc = "done"
    /\ modelInfo = <<"-">>
    /\ coverageInfo = <<"-">>
    /\ requests # EmptyBag
    /\ selectedFiles # <<>>

====
